---------------------------- MODULE Spec2Model ----------------------------
(***************************************************************************)
(* A model of cli-styler: the style value and its escape compiler          *)
(* (core/src/style.rs), the style-spec / color grammar and the markup      *)
(* tokenizer (src/parser.rs) and the markup tree builder and renderer      *)
(* (core/src/markup.rs).                                                   *)
(*                                                                         *)
(* A Rust String is a sequence of one-character strings; the escape        *)
(* character 0x1b is the one-element "ESC".                                *)
(***************************************************************************)
EXTENDS Integers, Sequences, FiniteSets, TLC

(***************************************************************************)
(* Bounds of the model.                                                    *)
(***************************************************************************)
\* number of fragments an enumerated markup input is made of
MaxFrags == 4
\* number of builder calls made on one Style value
MaxCalls == 2
\* number of times an already styled text is styled again
MaxWraps == 2

(***************************************************************************)
(* core/src/style.rs                                                       *)
(***************************************************************************)
ESC == "ESC"

RESET == <<ESC, "[", "0", "m">>

csi(formats) == <<ESC, "[">> \o formats \o <<"m">>

\* the escape sequence is written even when there are no codes
wrap_bare_csi(text, formats) ==
    IF text = <<>> THEN text
    ELSE csi(formats) \o text \o RESET

wrap_double_reset(text, formats) ==
    IF text = <<>> \/ formats = <<>> THEN text
    ELSE csi(formats) \o text \o RESET \o RESET

wrap(text, formats) ==
    IF text = <<>> \/ formats = <<>> THEN text
    ELSE csi(formats) \o text \o RESET

\* ClrType as u8: the offset added to a named hue's code
ClrTypes == {"Fg", "Bg", "FgBright", "BgBright"}

ClrType_u8(ct) ==
    CASE ct = "Fg" -> 0
      [] ct = "Bg" -> 10
      [] ct = "FgBright" -> 60
      [] ct = "BgBright" -> 70

get_csi(ct) == IF ct \in {"Fg", "FgBright"} THEN 38 ELSE 48

\* Color: the eight hues, Indexed(u8), RGB(u8, u8, u8)
Hues == {"Black", "Red", "Green", "Yellow", "Blue", "Magenta", "Cyan", "White"}

Hue(name) == [tag |-> name, r |-> 0, g |-> 0, b |-> 0]

Indexed(i) == [tag |-> "Indexed", r |-> i, g |-> 0, b |-> 0]

RGB(r, g, b) == [tag |-> "RGB", r |-> r, g |-> g, b |-> b]

\* #[default] White
Color_default == Hue("White")

to_num(color) ==
    CASE color.tag = "Black" -> 30
      [] color.tag = "Red" -> 31
      [] color.tag = "Green" -> 32
      [] color.tag = "Yellow" -> 33
      [] color.tag = "Blue" -> 34
      [] color.tag = "Magenta" -> 35
      [] color.tag = "Cyan" -> 36
      [] color.tag = "White" -> 37
      [] OTHER -> 0

\* Display of an unsigned integer: its decimal digits
Digits == <<"0", "1", "2", "3", "4", "5", "6", "7", "8", "9">>

RECURSIVE to_string(_)
to_string(n) ==
    IF n < 10 THEN <<Digits[n + 1]>>
    ELSE to_string(n \div 10) \o <<Digits[(n % 10) + 1]>>

\* u8 + u8 (the sum of a hue code and a channel offset)
u8_add(a, b) == (a + b) % 256

Color_format(color, ct) ==
    CASE color.tag = "Indexed" ->
            to_string(get_csi(ct)) \o <<";", "5", ";">> \o to_string(color.r)
      [] color.tag = "RGB" ->
            to_string(get_csi(ct)) \o <<";", "2", ";">> \o to_string(color.r)
                \o <<";">> \o to_string(color.g) \o <<";">> \o to_string(color.b)
      [] OTHER -> to_string(u8_add(to_num(color), ClrType_u8(ct)))

\* Modifier as u8
Modifiers == {"Reset", "Bold", "Dim", "Italic", "Underline", "Blink",
              "Invert", "Hide", "Strike", "DoubleUL", "Overline"}

Modifier_u8(mdf) ==
    CASE mdf = "Reset" -> 0
      [] mdf = "Bold" -> 1
      [] mdf = "Dim" -> 2
      [] mdf = "Italic" -> 3
      [] mdf = "Underline" -> 4
      [] mdf = "Blink" -> 5
      [] mdf = "Invert" -> 7
      [] mdf = "Hide" -> 8
      [] mdf = "Strike" -> 9
      [] mdf = "DoubleUL" -> 21
      [] mdf = "Overline" -> 53

\* Modifier::from_char: Option<Modifier>, None is "None"
Modifier_from_char(ch) ==
    CASE ch = "b" -> "Bold"
      [] ch = "d" -> "Dim"
      [] ch = "i" -> "Italic"
      [] ch = "u" -> "Underline"
      [] ch = "k" -> "Blink"
      [] ch = "v" -> "Invert"
      [] ch = "h" -> "Hide"
      [] ch = "s" -> "Strike"
      [] ch = "l" -> "DoubleUL"
      [] ch = "o" -> "Overline"
      [] OTHER -> "None"

\* Option<(Color, ClrType)>
None == [some |-> FALSE, clr |-> Color_default, ct |-> "Fg"]

Some(color, ct) == [some |-> TRUE, clr |-> color, ct |-> ct]

\* Style::new() / Style::default()
Style_new == [fg |-> None, bg |-> None, mdfs |-> <<>>]

\* setting the color puts the foreground back on the plain channel
fg_plain_channel(self, color) == [self EXCEPT !.fg = Some(color, "Fg")]

fg(self, color) ==
    [self EXCEPT !.fg = IF self.fg.some THEN Some(color, self.fg.ct)
                        ELSE Some(color, "Fg")]

bg(self, color) ==
    [self EXCEPT !.bg = IF self.bg.some THEN Some(color, self.bg.ct)
                        ELSE Some(color, "Bg")]

fg_rgb(self, r, g, b) ==
    [self EXCEPT !.fg = IF self.fg.some THEN Some(RGB(r, g, b), self.fg.ct)
                        ELSE Some(RGB(r, g, b), "Fg")]

bg_rgb(self, r, g, b) ==
    [self EXCEPT !.bg = IF self.bg.some THEN Some(RGB(r, g, b), self.bg.ct)
                        ELSE Some(RGB(r, g, b), "Bg")]

fg_index(self, i) == [self EXCEPT !.fg = Some(Indexed(i), "Fg")]

bg_index(self, i) == [self EXCEPT !.bg = Some(Indexed(i), "Bg")]

\* brightening forgets the color that was set
fg_brighten_default(self) ==
    [self EXCEPT !.fg = Some(Color_default, "FgBright")]

fg_brighten(self) ==
    [self EXCEPT !.fg = IF self.fg.some THEN Some(self.fg.clr, "FgBright")
                        ELSE Some(Color_default, "FgBright")]

\* the background gets the bright channel of the foreground
bg_brighten_fg_family(self) ==
    [self EXCEPT !.bg = IF self.bg.some THEN Some(self.bg.clr, "FgBright")
                        ELSE Some(Color_default, "FgBright")]

bg_brighten(self) ==
    [self EXCEPT !.bg = IF self.bg.some THEN Some(self.bg.clr, "BgBright")
                        ELSE Some(Color_default, "BgBright")]

insert_modifier(self, mdf) == [self EXCEPT !.mdfs = Append(self.mdfs, mdf)]

is_empty(self) ==
    IF self.fg.some THEN FALSE
    ELSE IF self.bg.some THEN FALSE
    ELSE IF self.mdfs # <<>> THEN FALSE
    ELSE TRUE

\* [String]::join(";")
RECURSIVE join(_, _)
join(strs, sep) ==
    IF strs = <<>> THEN <<>>
    ELSE IF Len(strs) = 1 THEN strs[1]
    ELSE strs[1] \o sep \o join(Tail(strs), sep)

collect_no_mdfs(self) ==
    IF is_empty(self) THEN <<>>
    ELSE join((IF self.fg.some THEN <<Color_format(self.fg.clr, self.fg.ct)>> ELSE <<>>)
              \o (IF self.bg.some THEN <<Color_format(self.bg.clr, self.bg.ct)>> ELSE <<>>),
              <<";">>)

collect(self) ==
    IF is_empty(self) THEN <<>>
    ELSE join((IF self.fg.some THEN <<Color_format(self.fg.clr, self.fg.ct)>> ELSE <<>>)
              \o (IF self.bg.some THEN <<Color_format(self.bg.clr, self.bg.ct)>> ELSE <<>>)
              \o [i \in 1..Len(self.mdfs) |-> to_string(Modifier_u8(self.mdfs[i]))],
              <<";">>)

\* CompiledStyle(String): the payload string itself
compile_fg_only(self) ==
    IF self.fg.some THEN Color_format(self.fg.clr, self.fg.ct) ELSE <<>>

compile(self) == collect(self)

\* impl Stylable for Style
Style_style(self, text) == wrap(text, collect(self))

\* impl Stylable for CompiledStyle
CompiledStyle_style(self, text) == wrap(text, self)

(***************************************************************************)
(* src/error.rs: ParsingError, one record shape for every variant          *)
(***************************************************************************)
Error(kind, str, num, ch) == [kind |-> kind, str |-> str, num |-> num, ch |-> ch]

NoError == Error("None", <<>>, 0, "")

Eof(str) == Error("Eof", str, 0, "")

InvalidTagChar(c) == Error("InvalidTagChar", <<>>, 0, c)

TooManyArgs(str, n) == Error("TooManyArgs", str, n, "")

MissingParamVal(str) == Error("MissingParamVal", str, 0, "")

InvalidParamName(str) == Error("InvalidParamName", str, 0, "")

InvalidClrSpec(str) == Error("InvalidClrSpec", str, 0, "")

InvalidHexClr(str, n) == Error("InvalidHexClr", str, n, "")

InvalidHexComp(c, str) == Error("InvalidHexComp", str, 0, c)

UnknownClrFmt(str) == Error("UnknownClrFmt", str, 0, "")

UnexpectedClosingTag == Error("UnexpectedClosingTag", <<>>, 0, "")

UnclosedTags == Error("UnclosedTags", <<>>, 0, "")

InvalidModifier(c) == Error("InvalidModifier", <<>>, 0, c)

\* a panic (todo!, panic!) unwinding out of the call
Panicked(str) == Error("Panic", str, 0, "")

(***************************************************************************)
(* Rust's str and char operations used by src/parser.rs                    *)
(***************************************************************************)
\* char::is_whitespace on the characters of the model
is_whitespace(c) == c \in {" ", "\t", "\n", "\r", "\f"}

is_ascii_whitespace(c) == c \in {" ", "\t", "\n", "\r", "\f"}

is_ascii_digit(c) == c \in {"0", "1", "2", "3", "4", "5", "6", "7", "8", "9"}

UpperLetters == <<"A", "B", "C", "D", "E", "F", "G", "H", "I", "J", "K", "L", "M",
                  "N", "O", "P", "Q", "R", "S", "T", "U", "V", "W", "X", "Y", "Z">>

LowerLetters == <<"a", "b", "c", "d", "e", "f", "g", "h", "i", "j", "k", "l", "m",
                  "n", "o", "p", "q", "r", "s", "t", "u", "v", "w", "x", "y", "z">>

is_ascii_alphanumeric(c) ==
    \/ is_ascii_digit(c)
    \/ \E i \in 1..26 : c = UpperLetters[i] \/ c = LowerLetters[i]

char_to_lowercase(c) ==
    IF \E i \in 1..26 : c = UpperLetters[i]
    THEN LowerLetters[CHOOSE i \in 1..26 : c = UpperLetters[i]]
    ELSE c

to_lowercase(s) == [i \in 1..Len(s) |-> char_to_lowercase(s[i])]

\* str::split_whitespace: the maximal runs of non-whitespace characters
RECURSIVE split_whitespace_from(_, _, _)
split_whitespace_from(s, cur, acc) ==
    IF s = <<>> THEN (IF cur = <<>> THEN acc ELSE Append(acc, cur))
    ELSE IF is_whitespace(Head(s))
         THEN split_whitespace_from(Tail(s), <<>>,
                                    IF cur = <<>> THEN acc ELSE Append(acc, cur))
         ELSE split_whitespace_from(Tail(s), Append(cur, Head(s)), acc)

split_whitespace(s) == split_whitespace_from(s, <<>>, <<>>)

\* str::split(','): the pieces between commas, empty ones kept
RECURSIVE split_comma_from(_, _, _)
split_comma_from(s, cur, acc) ==
    IF s = <<>> THEN Append(acc, cur)
    ELSE IF Head(s) = ","
         THEN split_comma_from(Tail(s), <<>>, Append(acc, cur))
         ELSE split_comma_from(Tail(s), Append(cur, Head(s)), acc)

split_comma(s) == split_comma_from(s, <<>>, <<>>)

\* str::trim
RECURSIVE trim_start(_)
trim_start(s) ==
    IF s # <<>> /\ is_whitespace(Head(s)) THEN trim_start(Tail(s)) ELSE s

RECURSIVE trim_end(_)
trim_end(s) ==
    IF s # <<>> /\ is_whitespace(s[Len(s)]) THEN trim_end(SubSeq(s, 1, Len(s) - 1))
    ELSE s

trim(s) == trim_end(trim_start(s))

\* char::to_digit(radix): -1 is None
digit_value(c) ==
    IF is_ascii_digit(c) THEN CHOOSE d \in 0..9 : Digits[d + 1] = c
    ELSE IF \E i \in 1..26 : c = LowerLetters[i]
         THEN 9 + (CHOOSE i \in 1..26 : c = LowerLetters[i])
    ELSE IF \E i \in 1..26 : c = UpperLetters[i]
         THEN 9 + (CHOOSE i \in 1..26 : c = UpperLetters[i])
    ELSE -1

below_radix(v, radix) == IF v >= 0 /\ v < radix THEN v ELSE -1

to_digit(c, radix) == below_radix(digit_value(c), radix)

\* the sum is reduced modulo 256 instead of refused
u8_push_digit_wrapping(acc, d, radix) ==
    IF d < 0 THEN -1 ELSE (acc * radix + d) % 256

\* u8::from_str_radix: the value, or -1 for Err (empty, a lone sign, a
\* character that is no digit, a value above 255); one leading '+' is allowed
\* checked_mul and checked_add of the next digit d (-1: no digit) into acc
u8_push_digit(acc, d, radix) ==
    IF d < 0 THEN -1
    ELSE IF acc * radix + d > 255 THEN -1
    ELSE acc * radix + d

RECURSIVE u8_digits(_, _, _)
u8_digits(s, radix, acc) ==
    IF acc < 0 THEN -1
    ELSE IF s = <<>> THEN acc
    ELSE u8_digits(Tail(s), radix, u8_push_digit(acc, to_digit(Head(s), radix), radix))

u8_from_str_radix(s, radix) ==
    IF s = <<>> THEN -1
    ELSE IF Len(s) = 1 /\ s[1] \in {"+", "-"} THEN -1
    ELSE IF s[1] = "+" THEN u8_digits(Tail(s), radix, 0)
    ELSE u8_digits(s, radix, 0)

\* str::parse::<u8>()
parse_u8(s) == u8_from_str_radix(s, 10)

(***************************************************************************)
(* src/parser.rs: the color and style-spec grammar                         *)
(***************************************************************************)
ParsingModes == {"Markup", "CommandLine"}

Mk == "Markup"

Cli == "CommandLine"

\* Result<Color, ParsingError>
OkColor(color) == [ok |-> TRUE, val |-> color, err |-> NoError]

ErrColor(e) == [ok |-> FALSE, val |-> Color_default, err |-> e]

\* Option<&str> of strip_prefix('#') / strip_suffix('#')
has_hex_marker(s, mode) ==
    /\ s # <<>>
    /\ IF mode = "Markup" THEN s[1] = "#" ELSE s[Len(s)] = "#"

strip_hex_marker(s, mode) ==
    IF mode = "Markup" THEN Tail(s) ELSE SubSeq(s, 1, Len(s) - 1)

\* the three digits are repeated as a group, not each one doubled
double_chars_as_group(hex) == hex \o hex

\* hex.chars().flat_map(|c| repeat_n(c, 2)).collect()
double_chars(hex) == [i \in 1..(2 * Len(hex)) |-> hex[(i + 1) \div 2]]

\* the three components r, g, b (-1: from_str_radix failed), tried in this order
hex_components(r, g, b, expanded) ==
    IF r < 0 THEN ErrColor(InvalidHexComp("r", expanded))
    ELSE IF g < 0 THEN ErrColor(InvalidHexComp("g", expanded))
    ELSE IF b < 0 THEN ErrColor(InvalidHexComp("b", expanded))
    ELSE OkColor(RGB(r, g, b))

hex_expanded(expanded) ==
    hex_components(u8_from_str_radix(SubSeq(expanded, 1, 2), 16),
                   u8_from_str_radix(SubSeq(expanded, 3, 4), 16),
                   u8_from_str_radix(SubSeq(expanded, 5, 6), 16),
                   expanded)

\* a body of 2 digits is refused like any length other than 3 and 6
parse_hex_refuses_two(hex) ==
    CASE Len(hex) = 3 -> hex_expanded(double_chars(hex))
      [] Len(hex) = 6 -> hex_expanded(hex)
      [] OTHER -> ErrColor(InvalidHexClr(hex, Len(hex)))

parse_hex(hex) ==
    CASE Len(hex) = 2 -> hex_expanded(hex \o hex \o hex)
      [] Len(hex) = 3 -> hex_expanded(double_chars(hex))
      [] Len(hex) = 6 -> hex_expanded(hex)
      [] OTHER -> ErrColor(InvalidHexClr(hex, Len(hex)))

unwrap_or(v, default) == IF v < 0 THEN default ELSE v

\* s.trim().parse::<u8>().unwrap_or(0)
rgb_part(part) == unwrap_or(parse_u8(trim(part)), 0)

alias_color(s) ==
    CASE s = <<"r">> -> OkColor(Hue("Red"))
      [] s = <<"g">> -> OkColor(Hue("Green"))
      [] s = <<"b">> -> OkColor(Hue("Blue"))
      [] s = <<"c">> -> OkColor(Hue("Cyan"))
      [] s = <<"m">> -> OkColor(Hue("Magenta"))
      [] s = <<"y">> -> OkColor(Hue("Yellow"))
      [] s = <<"k">> -> OkColor(Hue("Black"))
      [] s = <<"w">> -> OkColor(Hue("White"))
      [] OTHER -> ErrColor(InvalidClrSpec(s))

\* a part that is no 8-bit number makes the token unknown
parse_rgb_strict(parts, s) ==
    IF Len(parts) = 3 /\ \A i \in 1..3 : parse_u8(trim(parts[i])) >= 0
    THEN OkColor(RGB(rgb_part(parts[1]), rgb_part(parts[2]), rgb_part(parts[3])))
    ELSE ErrColor(UnknownClrFmt(s))

\* the last rule: the parts of s.split(',')
parse_rgb(parts, s) ==
    IF Len(parts) = 3
    THEN OkColor(RGB(rgb_part(parts[1]), rgb_part(parts[2]), rgb_part(parts[3])))
    ELSE ErrColor(UnknownClrFmt(s))

\* the rules in the order of the code; s is lowercased, i is s.parse::<u8>()
parse_color_rules(s, i, mode) ==
    IF Len(s) = 1 /\ ~is_ascii_digit(s[1]) THEN alias_color(s)
    ELSE IF i >= 0 THEN OkColor(Indexed(i))
    ELSE IF has_hex_marker(s, mode) THEN parse_hex(strip_hex_marker(s, mode))
    ELSE parse_rgb(split_comma(s), s)

parse_color_lowered(s, mode) == parse_color_rules(s, parse_u8(s), mode)

\* the token is matched as written, upper case letters included
parse_color_as_written(val, mode) == parse_color_lowered(val, mode)

parse_color(val, mode) == parse_color_lowered(to_lowercase(val), mode)

\* Result<Vec<Modifier>, ParsingError>
RECURSIVE parse_modfiers_from(_, _)
parse_modfiers_from(input, modifers) ==
    IF input = <<>> THEN [ok |-> TRUE, val |-> modifers, err |-> NoError]
    ELSE IF Modifier_from_char(Head(input)) = "None"
         THEN [ok |-> FALSE, val |-> <<>>, err |-> InvalidModifier(Head(input))]
         ELSE parse_modfiers_from(Tail(input),
                                  Append(modifers, Modifier_from_char(Head(input))))

parse_modfiers(input) == parse_modfiers_from(input, <<>>)

\* Result<Style, ParsingError>
OkStyle(style) == [ok |-> TRUE, val |-> style, err |-> NoError]

ErrStyle(e) == [ok |-> FALSE, val |-> Style_new, err |-> e]

\* one (param, val) chunk folded into the style
\* a color pair: c is parse_color(val, mode)?
color_pair(style, param, c) ==
    IF ~c.ok THEN ErrStyle(c.err)
    ELSE CASE param = <<"f">> -> OkStyle(fg(style, c.val))
           [] param = <<"b">> -> OkStyle(bg(style, c.val))
           [] param = <<"f", "b">> -> OkStyle(fg_brighten(fg(style, c.val)))
           [] param = <<"b", "b">> -> OkStyle(bg_brighten(bg(style, c.val)))

\* the modifiers of an m pair replace those of earlier pairs
modifier_pair_replaces(style, m) ==
    IF m.ok THEN OkStyle([style EXCEPT !.mdfs = m.val])
    ELSE ErrStyle(m.err)

\* an m pair: m is parse_modfiers(val)?
modifier_pair(style, m) ==
    IF m.ok THEN OkStyle([style EXCEPT !.mdfs = style.mdfs \o m.val])
    ELSE ErrStyle(m.err)

\* one (param, val) chunk folded into the style
parse_pair(style, param, val, mode) ==
    IF param \in {<<"f">>, <<"b">>, <<"f", "b">>, <<"b", "b">>}
    THEN color_pair(style, param, parse_color(val, mode))
    ELSE IF param = <<"m">> THEN modifier_pair(style, parse_modfiers(val))
    ELSE ErrStyle(InvalidParamName(param))

\* for arg in arguments.chunks_exact(2), leaving at the first error
RECURSIVE parse_chunks(_, _, _)
RECURSIVE parse_chunks_after(_, _, _)
parse_chunks(arguments, style, mode) ==
    IF Len(arguments) < 2 THEN OkStyle(style)
    ELSE parse_chunks_after(parse_pair(style, arguments[1], arguments[2], mode),
                            Tail(Tail(arguments)), mode)

\* the fold goes on after an offending pair and reports the last one
parse_chunks_after_last_error(res, rest, mode) ==
    IF res.ok THEN parse_chunks(rest, res.val, mode)
    ELSE IF parse_chunks(rest, Style_new, mode).ok THEN res
    ELSE parse_chunks(rest, Style_new, mode)

parse_chunks_after(res, rest, mode) ==
    IF res.ok THEN parse_chunks(rest, res.val, mode) ELSE res

parse_style_any_count(s, mode) ==
    parse_chunks(split_whitespace(s), Style_new, mode)

\* an empty spec is refused like an odd one
parse_arguments_needs_pair(s, arguments, length, mode) ==
    IF length > 6 THEN ErrStyle(TooManyArgs(s, length))
    ELSE IF length % 2 = 1 \/ length = 0 THEN ErrStyle(MissingParamVal(s))
    ELSE parse_chunks(arguments, Style_new, mode)

\* the odd count is refused before the count above 6
parse_arguments_odd_first(s, arguments, length, mode) ==
    IF length % 2 = 1 THEN ErrStyle(MissingParamVal(s))
    ELSE IF length > 6 THEN ErrStyle(TooManyArgs(s, length))
    ELSE parse_chunks(arguments, Style_new, mode)

parse_arguments(s, arguments, length, mode) ==
    IF length > 6 THEN ErrStyle(TooManyArgs(s, length))
    ELSE IF length % 2 = 1 THEN ErrStyle(MissingParamVal(s))
    ELSE parse_chunks(arguments, Style_new, mode)

parse_style(s, mode) ==
    parse_arguments(s, split_whitespace(s), Len(split_whitespace(s)), mode)

(***************************************************************************)
(* The inputs: markup strings, style specs and texts                       *)
(***************************************************************************)
\* the pieces enumerated markup inputs are made of
Fragments ==
    { <<"<">>, <<">">>, <<"/">>, <<"\\">>, <<"x">>, <<"!">>,
      <<"<", "m", " ", "b", ">">>, <<"<", "/", ">">>, <<"#", "1", ",", " ">> }

RECURSIVE concat(_)
concat(strs) == IF strs = <<>> THEN <<>> ELSE Head(strs) \o concat(Tail(strs))

GeneratedMarkup ==
    UNION { { concat(f) : f \in [1..n -> Fragments] } : n \in 0..MaxFrags }

\* the markup inputs the documentation names, and some nested ones
ExampleMarkup ==
    { <<"<", "b", ">", "b", "o", "l", "d", "<", "i", ">", " ", "a", "n", "d", " ",
        "i", "t", "a", "l", "i", "c", "<", "/", ">", "<", "/", ">">>,
      <<"<", "m", " ", "b", ">", "b", "o", "l", "d", "<", "m", " ", "i", ">", " ",
        "a", "n", "d", " ", "i", "t", "a", "l", "i", "c", "<", "/", ">", "<", "/", ">">>,
      <<"<", "b", ">", "u", "n", "t", "e", "r", "m", "i", "n", "a", "t", "e", "d">>,
      <<"<", "m", " ", "b", ">", "u", "n", "t", "e", "r", "m", "i", "n", "a", "t",
        "e", "d">>,
      <<"<", "/", ">", "<", "z", " ", "x", ">">>,
      <<"<", "f", " ", "r", ">", "a", "<", ">", "b", "<", "/", ">", "c", "<", "/", ">">>,
      <<"<", ">", "a", "<", ">", "b", "<", "/", ">", "<", "/", ">", "c">>,
      <<"a", "\\", "<", "b", "\\", "n", "\\">>,
      <<"<", "f", "b", " ", "#", "A", "B", "C", ">", "x", "<", "/", ">">> }

MarkupInputs == GeneratedMarkup \cup ExampleMarkup

(***************************************************************************)
(* The state                                                               *)
(***************************************************************************)
VARIABLES
    \* Markup::new(input) followed by render()
    input,          \* the markup string s
    pc,             \* "tokenize", "build", "render" or "done"
    chars,          \* tokenize: the characters not yet taken from s.chars()
    state,          \* tokenize: the State of the machine
    text,           \* tokenize: the pending text run
    tokens,         \* tokenize: the Vec<Token>
    consumed,       \* markup_parser: how many tokens the for loop has taken
    stack,          \* markup_parser: Vec<(Style, Vec<AstTk>)>
    current_nodes,  \* markup_parser: Vec<AstTk>
    result,         \* what Markup::new returned: Ok(Markup), Err or a panic
    output          \* what render() returned

markup_vars == <<input, pc, chars, state, text, tokens, consumed, stack,
                 current_nodes, result, output>>

(***************************************************************************)
(* src/parser.rs: Token, State and tokenize                                *)
(***************************************************************************)
Token_End == [kind |-> "End", style |-> Style_new, text |-> <<>>]

Token_Empty == [kind |-> "Empty", style |-> Style_new, text |-> <<>>]

Token_Fmt(style) == [kind |-> "Fmt", style |-> style, text |-> <<>>]

Token_Text(t) == [kind |-> "Text", style |-> Style_new, text |-> t]

State_Text == [tag |-> "Text", content |-> <<>>]

State_Lt == [tag |-> "Lt", content |-> <<>>]

State_BackSlash == [tag |-> "BackSlash", content |-> <<>>]

State_MaybeClose == [tag |-> "MaybeClose", content |-> <<>>]

State_Tag(tag_content) == [tag |-> "Tag", content |-> tag_content]

\* #[default] Text
State_default == State_Text

\* Result<Markup, ParsingError>; "none" until Markup::new returns
NoResult == [status |-> "none", err |-> NoError, st |-> <<>>, children |-> <<>>]

Err(e) == [status |-> "err", err |-> e, st |-> <<>>, children |-> <<>>]

Ok(markup) ==
    [status |-> "ok", err |-> NoError, st |-> markup.st, children |-> markup.children]

Panic(msg) == [status |-> "panic", err |-> Panicked(msg), st |-> <<>>, children |-> <<>>]

\* chars.next(): "None" at the end of the input
NoChar == "None"

ch == IF chars = <<>> THEN NoChar ELSE Head(chars)

next_chars == IF chars = <<>> THEN <<>> ELSE Tail(chars)

\* the ? operator and todo!: tokenize and with it Markup::new return here
tokenize_fails(r) ==
    /\ pc' = "done"
    /\ result' = r
    /\ chars' = next_chars
    /\ UNCHANGED <<input, state, text, tokens, consumed, stack, current_nodes, output>>

tokenize_goes(new_state, new_text, new_tokens) ==
    /\ state' = new_state
    /\ text' = new_text
    /\ tokens' = new_tokens
    /\ chars' = next_chars
    /\ UNCHANGED <<input, pc, consumed, stack, current_nodes, result, output>>

Tokenize_Lt ==
    /\ pc = "tokenize" /\ state.tag = "Lt"
    /\ CASE ch = NoChar -> tokenize_fails(Err(Eof(<<">">>)))
         [] ch = "/" -> tokenize_goes(State_MaybeClose, text, tokens)
         [] ch = ">" -> tokenize_goes(State_default, text, Append(tokens, Token_Empty))
         [] OTHER -> tokenize_goes(State_Tag(<<ch>>), text, tokens)

tag_char_ok_any(c) == c # "<"

tag_char_ok(c) ==
    \/ c = ","
    \/ c = "#"
    \/ is_ascii_digit(c)
    \/ is_ascii_whitespace(c)
    \/ is_ascii_alphanumeric(c)

eof_tag_name_no_content(tag_content) ==
    Eof(<<"T", "a", "g", " ", "n", "a", "m", "e", ":", " ">>)

eof_tag_name(tag_content) ==
    Eof(<<"T", "a", "g", " ", "n", "a", "m", "e", ":", " ">> \o tag_content)

\* tokens.push(Token::Fmt(parse_style(tag_content, mode)?))
tokenize_tag_closed(parsed) ==
    IF parsed.ok
    THEN tokenize_goes(State_default, text, Append(tokens, Token_Fmt(parsed.val)))
    ELSE tokenize_fails(Err(parsed.err))

Tokenize_Tag ==
    /\ pc = "tokenize" /\ state.tag = "Tag"
    /\ CASE ch = NoChar -> tokenize_fails(Err(eof_tag_name(state.content)))
         [] ch = ">" -> tokenize_tag_closed(parse_style(state.content, Mk))
         [] OTHER ->
              IF tag_char_ok(ch)
              THEN tokenize_goes(State_Tag(Append(state.content, ch)), text, tokens)
              ELSE tokenize_fails(Err(InvalidTagChar(ch)))

backslash_text_keep(t, c) ==
    CASE c = NoChar -> Append(t, "\\")
      [] OTHER -> Append(Append(t, "\\"), c)

backslash_text(t, c) ==
    CASE c = NoChar -> Append(t, "\\")
      [] c = "<" -> Append(t, "<")
      [] OTHER -> Append(Append(t, "\\"), c)

\* at the end of the input the escape waits for a character that never comes
Tokenize_BackSlash_waits ==
    /\ pc = "tokenize" /\ state.tag = "BackSlash"
    /\ IF ch = NoChar
       THEN tokenize_goes(State_BackSlash, text, tokens)
       ELSE tokenize_goes(State_default, backslash_text(text, ch), tokens)

Tokenize_BackSlash ==
    /\ pc = "tokenize" /\ state.tag = "BackSlash"
    /\ tokenize_goes(State_default, backslash_text(text, ch), tokens)

\* a close tag with nothing open is refused as soon as it is read
Tokenize_MaybeClose_eager ==
    /\ pc = "tokenize" /\ state.tag = "MaybeClose"
    /\ CASE ch = NoChar -> tokenize_fails(Err(Eof(<<"<", "/">>)))
         [] ch = ">" ->
              IF \A i \in 1..Len(tokens) : tokens[i].kind = "Text"
              THEN tokenize_fails(Err(UnexpectedClosingTag))
              ELSE tokenize_goes(State_default, text, Append(tokens, Token_End))
         [] OTHER -> tokenize_fails(Panic(<<ch>>))

\* the character after "</" is dropped and the close tag still awaited
Tokenize_MaybeClose_skips ==
    /\ pc = "tokenize" /\ state.tag = "MaybeClose"
    /\ CASE ch = NoChar -> tokenize_fails(Err(Eof(<<"<", "/">>)))
         [] ch = ">" -> tokenize_goes(State_default, text, Append(tokens, Token_End))
         [] OTHER -> tokenize_goes(State_MaybeClose, text, tokens)

Tokenize_MaybeClose ==
    /\ pc = "tokenize" /\ state.tag = "MaybeClose"
    /\ CASE ch = NoChar -> tokenize_fails(Err(Eof(<<"<", "/">>)))
         [] ch = ">" -> tokenize_goes(State_default, text, Append(tokens, Token_End))
         [] OTHER -> tokenize_fails(Panic(<<ch>>))

\* std::mem::take(&mut text) pushed as a Text token when not empty
flush(tks, t) == IF t # <<>> THEN Append(tks, Token_Text(t)) ELSE tks

Tokenize_Text ==
    /\ pc = "tokenize" /\ state.tag = "Text"
    /\ CASE ch = NoChar ->
              \* break; Ok(tokens): markup_parser goes on with the tokens
              /\ tokens' = flush(tokens, text)
              /\ text' = <<>>
              /\ pc' = "build"
              /\ UNCHANGED <<input, chars, state, consumed, stack, current_nodes,
                             result, output>>
         [] ch = "\\" -> tokenize_goes(State_BackSlash, text, tokens)
         [] ch = "<" -> tokenize_goes(State_Lt, <<>>, flush(tokens, text))
         [] OTHER -> tokenize_goes(State_Text, Append(text, ch), tokens)

(***************************************************************************)
(* core/src/markup.rs: AstTk, Markup, markup_parser and render             *)
(***************************************************************************)
AstTk_Text(t) == [kind |-> "Text", text |-> t, st |-> <<>>, children |-> <<>>]

AstTk_Tree(markup) ==
    [kind |-> "Tree", text |-> <<>>, st |-> markup.st, children |-> markup.children]

Markup(st, children) == [st |-> st, children |-> children]

token == tokens[consumed + 1]

build_goes(new_stack, new_nodes) ==
    /\ stack' = new_stack
    /\ current_nodes' = new_nodes
    /\ consumed' = consumed + 1
    /\ UNCHANGED <<input, pc, chars, state, text, tokens, result, output>>

build_returns(r) ==
    /\ pc' = IF r.status = "ok" THEN "render" ELSE "done"
    /\ result' = r
    /\ UNCHANGED <<input, chars, state, text, tokens, consumed, stack,
                   current_nodes, output>>

Build_Text ==
    /\ pc = "build" /\ consumed < Len(tokens) /\ token.kind = "Text"
    /\ build_goes(stack, Append(current_nodes, AstTk_Text(token.text)))

Build_Fmt ==
    /\ pc = "build" /\ consumed < Len(tokens) /\ token.kind = "Fmt"
    /\ build_goes(Append(stack, <<token.style, current_nodes>>), <<>>)

Build_Empty ==
    /\ pc = "build" /\ consumed < Len(tokens) /\ token.kind = "Empty"
    /\ build_goes(Append(stack, <<Style_new, current_nodes>>), <<>>)

\* the close keeps the frame it should pop
close_keeps_frame(stk, nodes) ==
    <<stk, <<AstTk_Tree(Markup(compile(stk[Len(stk)][1]), nodes))>> >>

\* the node is put before its elder siblings
close_frame_prepend(stk, nodes) ==
    <<SubSeq(stk, 1, Len(stk) - 1),
      <<AstTk_Tree(Markup(compile(stk[Len(stk)][1]), nodes))>> \o stk[Len(stk)][2]>>

\* stack.pop() and the node made of the current list, pushed to the parent's
close_frame(stk, nodes) ==
    <<SubSeq(stk, 1, Len(stk) - 1),
      Append(stk[Len(stk)][2], AstTk_Tree(Markup(compile(stk[Len(stk)][1]), nodes)))>>

build_closed(frame) == build_goes(frame[1], frame[2])

Build_End ==
    /\ pc = "build" /\ consumed < Len(tokens) /\ token.kind = "End"
    /\ IF stack = <<>>
       THEN build_returns(Err(UnexpectedClosingTag))
       ELSE build_closed(close_frame(stack, current_nodes))

finish_ignores_stack(stk, nodes) == Ok(Markup(compile(Style_new), nodes))

finish(stk, nodes) ==
    IF stk # <<>> THEN Err(UnclosedTags)
    ELSE Ok(Markup(compile(Style_new), nodes))

Build_Finish ==
    /\ pc = "build" /\ consumed = Len(tokens)
    /\ build_returns(finish(stack, current_nodes))

\* applies the node's style to the whole of its children's output
RECURSIVE render_whole(_)
render_whole(self) ==
    CompiledStyle_style(self.st,
        concat([i \in 1..Len(self.children) |->
                   IF self.children[i].kind = "Text" THEN self.children[i].text
                   ELSE render_whole(Markup(self.children[i].st,
                                            self.children[i].children))]))

RECURSIVE render(_)
render(self) ==
    concat([i \in 1..Len(self.children) |->
               IF self.children[i].kind = "Text"
               THEN CompiledStyle_style(self.st, self.children[i].text)
               ELSE render(Markup(self.children[i].st, self.children[i].children))])

Render ==
    /\ pc = "render"
    /\ output' = render(Markup(result.st, result.children))
    /\ pc' = "done"
    /\ UNCHANGED <<input, chars, state, text, tokens, consumed, stack,
                   current_nodes, result>>

(***************************************************************************)
(* A Style value: new / new_from_cli_spec, the setters, compile and style  *)
(***************************************************************************)
VARIABLES
    style,          \* the Style under construction
    calls,          \* how many setter calls or spec pairs made it
    spec,           \* the spec string given to new_from_cli_spec, if any
    phase,          \* "idle", "build", "apply" or "panic"; cli::run: "exit", "failed"
    failure,        \* the ParsingError new_from_cli_spec panicked with, run returned
    compiled,       \* the CompiledStyle compile() returned
    applied         \* the last style(text) call: by whom, the text, the output

style_vars == <<style, calls, spec, phase, failure, compiled, applied>>

vars == <<markup_vars, style_vars>>

\* the (flag, value) tokens enumerated style specs are made of
SpecFlags == { <<"f">>, <<"b">>, <<"f", "b">>, <<"b", "b">>, <<"m">>, <<"z">> }

SpecValues ==
    { <<"r">>, <<"G">>, <<"q">>, <<"9", "9">>, <<"3", "0", "0">>,
      <<"#", "A", "B", "C">>, <<"#", "A", "A", "B", "B", "C", "C">>, <<"#", "1", "2">>,
      <<"#", "0", "0", "8", "0", "F", "F">>, <<",", "1", "2", "8", ",", "2", "5", "5">>,
      <<"b", "i">>, <<"i", "l", "o", "b", "u">>, <<"g">>, <<"b">>, <<"c">>, <<"m">>,
      <<"y">>, <<"k">>, <<"w">>, <<"#", "a", "b", "c">>,
      <<"#", "a", "A", "b", "B", "c", "C">>, <<"#">>, <<"#", "1">>,
      <<"#", "1", "2", "3", "4">>, <<"#", "+", "f">>, <<"#", "x", "y", "z">>,
      <<"#", "0", "g", "0">>, <<"#", "0", "0", "0", "0", "0", "z">>,
      <<"A", "B", "C", "#">>, <<"1", "2", "#">>, <<"1", "2", "3", "4", "#">>,
      <<"0", "g", "0", "#">>, <<"+", "f", "#">>, <<",", "1", "2", "8", ",">>,
      <<"1", ",", "2">>, <<"1", ",", "2", ",", "3", ",", "4">>,
      <<"3", "0", "0", ",", "x", ",", "7">>, <<"X", "Y">>, <<"1", ",", ",", "#">>,
      <<"Q">>, <<"a">>, <<"0">>, <<"7">>, <<"2", "5", "5">>, <<"2", "5", "6">>,
      <<"0", "0", "7">>, <<"b", "b">>, <<"b", "q", "z">> }

PairSpecs == { f \o <<" ">> \o v : f \in SpecFlags, v \in SpecValues }

\* the specs the documentation and the tests name, and the boundary cases
ExampleSpecs ==
    { <<>>, <<" ">>, <<"f">>, <<"z", " ", "x">>, <<"m", " ", "q">>,
      <<"f", "b", " ", "r", " ", "f", " ", "g">>,
      <<"f", " ", "r", " ", "b", " ", "g", " ", "m", " ", "b">>,
      <<"f", " ", "r", " ", "b", " ", "g", " ", "m", " ", "b", " ", "f">>,
      <<"f", " ", "r", " ", "b", " ", "g", " ", "m", " ", "b", " ", "z", " ", "x">>,
      <<"f", "b", " ", "r", " ", "b", " ", "#", "A", "B", "C", " ", "m", " ", "i", "l", "o", "b", "u">>,
      <<"f", " ", "#", "f", "f", "f", " ", "b", " ", "2", "5", "5", ",", ",">>, <<"z">>,
      <<"z", " ", "x", " ", "q">>, <<"f", " ", "r", " ", "b", " ", "g", " ", "m">>,
      <<"z", " ", "x", " ", "z", " ", "x", " ", "z", " ", "x", " ", "z">>,
      <<"f", " ", "q", " ", "z", " ", "x">>, <<"z", " ", "x", " ", "f", " ", "q">>,
      <<"m", " ", "q", " ", "f", " ", "q">>,
      <<"f", " ", "r", " ", "z", " ", "x", " ", "m", " ", "q">>,
      <<"b", "b", " ", "r", " ", "b", " ", "g">>,
      <<"f", " ", "r", " ", "f", "b", " ", "g", " ", "f", " ", "b">>,
      <<"f", "b", " ", "r", " ", "b", " ", "g", " ", "f", " ", "#", "A", "B", "C">>,
      <<"f", " ", "r", " ", "f", " ", "g">>,
      <<"b", "b", " ", "k", " ", "b", " ", "w", " ", "b", " ", "7">>,
      <<" ", "f", "\t", "r", " ">>, <<"m", " ", "b", " ", "m", " ", "i">>,
      <<"m", " ", "b", "i", " ", "m", " ", "b">>,
      <<"f", " ", "9", "9", " ", "m", " ", "b", " ", "b", " ", "1", "9", "8">>,
      <<"m", " ", "i", " ", "f", " ", "r", " ", "m", " ", "q", "z">> }

SpecInputs == PairSpecs \cup ExampleSpecs

\* the arguments of the setter calls
SetterColors == { Hue("Red"), RGB(0, 128, 255) }

SetterModifiers == { "Bold", "Reset", "Overline" }

\* the texts styled: empty, plain, and already styled ones
Texts == { <<>>, <<"H", "i">> }

NoSpec == <<"-">>

NoCompiled == [some |-> FALSE, payload |-> <<>>]

NotApplied == [by |-> "none", text |-> <<>>, out |-> <<>>, wraps |-> 0]

StyleIdle ==
    /\ style = Style_new
    /\ calls = 0
    /\ spec = NoSpec
    /\ phase = "idle"
    /\ failure = NoError
    /\ compiled = NoCompiled
    /\ applied = NotApplied

\* Style::new()
StyleInit ==
    /\ style = Style_new
    /\ calls = 0
    /\ spec = NoSpec
    /\ phase = "build"
    /\ failure = NoError
    /\ compiled = NoCompiled
    /\ applied = NotApplied

\* Ok(style) is returned, Err(err) is panic!("...: {err}")
new_from_cli_spec_ok_always(s, parsed) ==
    /\ style' = parsed.val
    /\ calls' = Len(split_whitespace(s)) \div 2
    /\ UNCHANGED <<phase, failure>>

new_from_cli_spec(s, parsed) ==
    IF parsed.ok
    THEN /\ style' = parsed.val
         /\ calls' = Len(split_whitespace(s)) \div 2
         /\ UNCHANGED <<phase, failure>>
    ELSE /\ phase' = "panic"
         /\ failure' = parsed.err
         /\ UNCHANGED <<style, calls>>

New_from_cli_spec ==
    /\ phase = "build" /\ calls = 0 /\ spec = NoSpec
    /\ \E s \in SpecInputs :
          /\ spec' = s
          /\ new_from_cli_spec(s, parse_style(s, Mk))
    /\ UNCHANGED <<compiled, applied>>

\* Ok(style.compile()) is returned, Err(err) is panic!("...: {err}")
CompiledStyle_from_spec(s, parsed) ==
    IF parsed.ok
    THEN /\ style' = parsed.val
         /\ calls' = Len(split_whitespace(s)) \div 2
         /\ compiled' = [some |-> TRUE, payload |-> compile(parsed.val)]
         /\ phase' = "apply"
         /\ UNCHANGED failure
    ELSE /\ phase' = "panic"
         /\ failure' = parsed.err
         /\ UNCHANGED <<style, calls, compiled>>

\* CompiledStyle::new_from_cli_spec(spec)
CompiledStyle_new_from_cli_spec ==
    /\ phase = "build" /\ calls = 0 /\ spec = NoSpec
    /\ \E s \in SpecInputs :
          /\ spec' = s
          /\ CompiledStyle_from_spec(s, parse_style(s, Mk))
    /\ UNCHANGED applied

setter(new_style) ==
    /\ phase = "build" /\ calls < MaxCalls
    /\ style' = new_style
    /\ calls' = calls + 1
    /\ UNCHANGED <<spec, phase, failure, compiled, applied>>

Fg == \E color \in SetterColors : setter(fg(style, color))

Bg == \E color \in SetterColors : setter(bg(style, color))

Fg_rgb == setter(fg_rgb(style, 0, 255, 255))

Bg_rgb == setter(bg_rgb(style, 170, 187, 204))

Fg_index == setter(fg_index(style, 99))

Bg_index == setter(bg_index(style, 198))

Fg_brighten == setter(fg_brighten(style))

Bg_brighten == setter(bg_brighten(style))

\* bold(), dim(), ..., overline(), reset()
Insert_modifier == \E mdf \in SetterModifiers : setter(insert_modifier(style, mdf))

Compile ==
    /\ phase \in {"build", "apply"} /\ ~compiled.some
    /\ compiled' = [some |-> TRUE, payload |-> compile(style)]
    /\ phase' = "apply"
    /\ UNCHANGED <<style, calls, spec, failure, applied>>

\* the texts a caller may style now: a fresh one, or the last output again
TextsNow ==
    Texts \cup (IF applied.by # "none" /\ applied.wraps < MaxWraps
                THEN {applied.out} ELSE {})

styled(by, t, out) ==
    [by |-> by, text |-> t, out |-> out,
     wraps |-> IF t \in Texts THEN 0 ELSE applied.wraps + 1]

\* Style::style(text)
Style_text ==
    /\ phase \in {"build", "apply"}
    /\ \E t \in TextsNow : applied' = styled("Style", t, Style_style(style, t))
    /\ phase' = "apply"
    /\ UNCHANGED <<style, calls, spec, failure, compiled>>

\* CompiledStyle::style(text)
CompiledStyle_text ==
    /\ phase = "apply" /\ compiled.some
    /\ \E t \in TextsNow :
          applied' = styled("CompiledStyle", t, CompiledStyle_style(compiled.payload, t))
    /\ UNCHANGED <<style, calls, spec, phase, failure, compiled>>

\* cli::run with a text and style arguments: parse_style(args[1..].join(" "),
\* Cli) mapped into StylerError and returned with ?, or the styled text printed
run_styles(s, t, parsed) ==
    IF parsed.ok
    THEN /\ style' = parsed.val
         /\ calls' = Len(split_whitespace(s)) \div 2
         /\ applied' = styled("Style", t, Style_style(parsed.val, t))
         /\ phase' = "exit"
         /\ UNCHANGED failure
    ELSE /\ phase' = "failed"
         /\ failure' = parsed.err
         /\ UNCHANGED <<style, calls, applied>>

Run ==
    /\ phase = "build" /\ calls = 0 /\ spec = NoSpec
    /\ \E s \in SpecInputs, t \in Texts :
          /\ spec' = s
          /\ run_styles(s, t, parse_style(s, Cli))
    /\ UNCHANGED compiled

(***************************************************************************)
(* The specifications                                                      *)
(***************************************************************************)
MarkupIdle ==
    /\ input = <<>>
    /\ pc = "idle"
    /\ chars = <<>>
    /\ state = State_Text
    /\ text = <<>>
    /\ tokens = <<>>
    /\ consumed = 0
    /\ stack = <<>>
    /\ current_nodes = <<>>
    /\ result = NoResult
    /\ output = <<>>

\* Markup::new(input) on one of the inputs
MarkupInit ==
    /\ input \in MarkupInputs
    /\ pc = "tokenize"
    /\ chars = input
    /\ state = State_Text
    /\ text = <<>>
    /\ tokens = <<>>
    /\ consumed = 0
    /\ stack = <<>>
    /\ current_nodes = <<>>
    /\ result = NoResult
    /\ output = <<>>

\* Markup::new(input).render()
Init == MarkupInit /\ StyleIdle

Next ==
    \/ (Tokenize_Lt /\ UNCHANGED style_vars)
    \/ (Tokenize_Tag /\ UNCHANGED style_vars)
    \/ (Tokenize_BackSlash /\ UNCHANGED style_vars)
    \/ (Tokenize_MaybeClose /\ UNCHANGED style_vars)
    \/ (Tokenize_Text /\ UNCHANGED style_vars)
    \/ (Build_Text /\ UNCHANGED style_vars)
    \/ (Build_Fmt /\ UNCHANGED style_vars)
    \/ (Build_Empty /\ UNCHANGED style_vars)
    \/ (Build_End /\ UNCHANGED style_vars)
    \/ (Build_Finish /\ UNCHANGED style_vars)
    \/ (Render /\ UNCHANGED style_vars)

Spec == Init /\ [][Next]_vars

\* a Style made by new() or new_from_cli_spec, changed by setters, then used
InitStyle == MarkupIdle /\ StyleInit

NextStyle ==
    \/ (New_from_cli_spec /\ UNCHANGED markup_vars)
    \/ (CompiledStyle_new_from_cli_spec /\ UNCHANGED markup_vars)
    \/ (Run /\ UNCHANGED markup_vars)
    \/ (Fg /\ UNCHANGED markup_vars)
    \/ (Bg /\ UNCHANGED markup_vars)
    \/ (Fg_rgb /\ UNCHANGED markup_vars)
    \/ (Bg_rgb /\ UNCHANGED markup_vars)
    \/ (Fg_index /\ UNCHANGED markup_vars)
    \/ (Bg_index /\ UNCHANGED markup_vars)
    \/ (Fg_brighten /\ UNCHANGED markup_vars)
    \/ (Bg_brighten /\ UNCHANGED markup_vars)
    \/ (Insert_modifier /\ UNCHANGED markup_vars)
    \/ (Compile /\ UNCHANGED markup_vars)
    \/ (Style_text /\ UNCHANGED markup_vars)
    \/ (CompiledStyle_text /\ UNCHANGED markup_vars)

SpecStyle == InitStyle /\ [][NextStyle]_vars

\* Markup::new(input).render() as it runs, for the enumerated markup strings:
\* the loops of tokenize and markup_parser and the call of render go on while
\* they have a step to take
InitLive == Init /\ input \in GeneratedMarkup

SpecLive == InitLive /\ [][Next]_vars /\ WF_vars(Next)

(***************************************************************************)
(* The claims                                                              *)
(***************************************************************************)
\* how many times the character c occurs in s
RECURSIVE count_char(_, _)
count_char(s, c) ==
    IF s = <<>> THEN 0
    ELSE (IF Head(s) = c THEN 1 ELSE 0) + count_char(Tail(s), c)

\* the tree Markup::new returned
Root == Markup(result.st, result.children)

Bold_and_italic_b ==
    <<"<", "b", ">", "b", "o", "l", "d", "<", "i", ">", " ", "a", "n", "d", " ",
      "i", "t", "a", "l", "i", "c", "<", "/", ">", "<", "/", ">">>

Bold_and_italic_mb ==
    <<"<", "m", " ", "b", ">", "b", "o", "l", "d", "<", "m", " ", "i", ">", " ",
      "a", "n", "d", " ", "i", "t", "a", "l", "i", "c", "<", "/", ">", "<", "/", ">">>

\* C1 (as claimed): render returns the node's style applied once to the
\* concatenation of its children's rendered output, so that a nested scope's
\* prefix and reset lie inside the outer scope's single prefix/reset pair.
\* The code styles each text child on its own and leaves a sub-tree's output
\* as it is: the outer style never reaches the text of an inner scope.
C1_RenderStylesConcatenation ==
    (pc = "done" /\ result.status = "ok") => output = render_whole(Root)

\* the codes the last style(text) call was made with
AppliedCodes == IF applied.by = "Style" THEN collect(style) ELSE compiled.payload

\* C2: style(text) returns the text unchanged when the text or the code list
\* is empty, and otherwise ESC [ codes m, the text unaltered, ESC [ 0 m: one
\* prefix and one reset more than the text had, also for a text that was
\* styled before.
C2_WrapAddsOnePrefixOneReset ==
    applied.by # "none" =>
        IF applied.text = <<>> \/ AppliedCodes = <<>>
        THEN applied.out = applied.text
        ELSE /\ Len(applied.out) = Len(applied.text) + Len(AppliedCodes) + 7
             /\ SubSeq(applied.out, 1, 2) = <<ESC, "[">>
             /\ SubSeq(applied.out, 3, 2 + Len(AppliedCodes)) = AppliedCodes
             /\ applied.out[3 + Len(AppliedCodes)] = "m"
             /\ SubSeq(applied.out, 4 + Len(AppliedCodes),
                       3 + Len(AppliedCodes) + Len(applied.text)) = applied.text
             /\ SubSeq(applied.out, Len(applied.out) - 3, Len(applied.out))
                    = <<ESC, "[", "0", "m">>
             /\ count_char(applied.out, ESC) = count_char(applied.text, ESC) + 2

\* a non-identity style applied to a text that an earlier call had wrapped
C2_Witness ==
    /\ applied.by # "none"
    /\ applied.wraps >= 1
    /\ AppliedCodes # <<>>
    /\ count_char(applied.text, ESC) >= 2
    /\ count_char(applied.out, ESC) >= 4

\* C3: the empty spec string parses without error to the identity Style (no
\* foreground, no background, no modifiers), equal to Style::new(), and
\* applying that style to a text returns the text.
C3_EmptySpecIsIdentity ==
    (spec = <<>> /\ calls = 0) =>
        /\ phase # "panic"
        /\ failure = NoError
        /\ ~style.fg.some /\ ~style.bg.some /\ style.mdfs = <<>>
        /\ style = Style_new
        /\ (applied.by # "none" => applied.out = applied.text)

\* the style parsed from "" was applied to a text that is not empty
C3_Witness ==
    /\ spec = <<>> /\ calls = 0
    /\ applied.by = "Style"
    /\ applied.text # <<>>

\* C4: a CompiledStyle made by compile() from a Style gives, applied to a
\* text, what the Style itself gives.
C4_CompileKeepsStyle ==
    applied.by = "CompiledStyle" => applied.out = Style_style(style, applied.text)

\* a compiled style with a color and modifiers was applied to a text
C4_Witness ==
    /\ applied.by = "CompiledStyle"
    /\ style.fg.some /\ style.mdfs # <<>>
    /\ applied.text # <<>>
    /\ applied.out # applied.text

\* how many tokens of tks open a scope (Fmt, Empty), how many close one (End)
RECURSIVE opens(_)
opens(tks) ==
    IF tks = <<>> THEN 0
    ELSE (IF Head(tks).kind \in {"Fmt", "Empty"} THEN 1 ELSE 0) + opens(Tail(tks))

RECURSIVE closes(_)
closes(tks) ==
    IF tks = <<>> THEN 0
    ELSE (IF Head(tks).kind = "End" THEN 1 ELSE 0) + closes(Tail(tks))

\* no close token of tks arrives while nothing is open
closes_matched(tks) ==
    \A k \in 1..Len(tks) : closes(SubSeq(tks, 1, k)) <= opens(SubSeq(tks, 1, k))

\* tokenize returned Ok(tokens)
Tokenized == pc \in {"build", "render", "done"} /\ state.tag = "Text"

B_unterminated ==
    <<"<", "b", ">", "u", "n", "t", "e", "r", "m", "i", "n", "a", "t", "e", "d">>

Mb_unterminated ==
    <<"<", "m", " ", "b", ">", "u", "n", "t", "e", "r", "m", "i", "n", "a", "t",
      "e", "d">>

\* C5 (as claimed): Markup::new fails with UnclosedTags whenever the input
\* ends with an opened tag that is not closed, for example for
\* <b>unterminated, and succeeds only if every opened tag is closed.
C5_UnclosedTagsAsClaimed ==
    result.status # "none" =>
        /\ (input = B_unterminated => result = Err(UnclosedTags))
        /\ (Tokenized /\ opens(tokens) > closes(tokens) => result = Err(UnclosedTags))
        /\ (result.status = "ok" => opens(tokens) = closes(tokens))

\* C5 (amended): Markup::new fails with UnclosedTags whenever the input
\* tokenizes without error, no close token arrives while nothing is open, and
\* the input ends with at least one opened tag not closed, for example for
\* <m b>unterminated; it succeeds only if every opened tag is closed.
C5_UnclosedTags ==
    result.status # "none" =>
        /\ (input = Mb_unterminated => result = Err(UnclosedTags))
        /\ (Tokenized /\ closes_matched(tokens) /\ opens(tokens) > closes(tokens)
               => result = Err(UnclosedTags))
        /\ (result.status = "ok" => opens(tokens) = closes(tokens))

\* <m b>unterminated was refused for its unclosed tag
C5_Witness ==
    /\ input = Mb_unterminated
    /\ result = Err(UnclosedTags)
    /\ Len(stack) = 1

\* C6: while the builder consumes the tokens, the depth of the frame stack is
\* the number of open tokens minus the number of close tokens consumed, never
\* negative; a close token arriving when nothing is open makes Markup::new
\* fail with UnexpectedClosingTag, with no tree, as for the input </>.
C6_StackDepth ==
    Tokenized =>
        /\ Len(stack) = opens(SubSeq(tokens, 1, consumed))
                          - closes(SubSeq(tokens, 1, consumed))
        /\ closes_matched(SubSeq(tokens, 1, consumed))
        /\ (result.status # "none" /\ ~closes_matched(tokens)
               => /\ result = Err(UnexpectedClosingTag)
                  /\ tokens[consumed + 1].kind = "End"
                  /\ stack = <<>>
                  /\ output = <<>>)
        /\ (result.status # "none" /\ input = <<"<", "/", ">">>
               => result = Err(UnexpectedClosingTag))
        /\ (result = Err(UnexpectedClosingTag) => ~closes_matched(tokens))

\* a close arrived after a scope had been opened and closed again
C6_Witness ==
    /\ result = Err(UnexpectedClosingTag)
    /\ consumed >= 2
    /\ opens(SubSeq(tokens, 1, consumed)) >= 1

\* the tokens a list of children stands for: a text run for a text child, and
\* for a node its open token (the compiled style), its children, a close
RECURSIVE tree_tokens(_)
tree_tokens(children) ==
    concat([i \in 1..Len(children) |->
               IF children[i].kind = "Text"
               THEN <<[k |-> "Text", s |-> children[i].text]>>
               ELSE <<[k |-> "Open", s |-> children[i].st]>>
                    \o tree_tokens(children[i].children)
                    \o <<[k |-> "Close", s |-> <<>>]>>])

token_shapes(tks) ==
    [i \in 1..Len(tks) |->
        CASE tks[i].kind = "Text" -> [k |-> "Text", s |-> tks[i].text]
          [] tks[i].kind = "End" -> [k |-> "Close", s |-> <<>>]
          [] OTHER -> [k |-> "Open", s |-> collect(tks[i].style)]]

Text_bold == AstTk_Text(<<"b", "o", "l", "d">>)

Text_and_italic ==
    AstTk_Text(<<" ", "a", "n", "d", " ", "i", "t", "a", "l", "i", "c">>)

\* the tree of the example, the outer node carrying st_b, the inner one st_i
bold_and_italic_tree(st_b, st_i) ==
    Ok(Markup(<<>>,
              <<AstTk_Tree(Markup(st_b,
                    <<Text_bold, AstTk_Tree(Markup(st_i, <<Text_and_italic>>))>>))>>))

\* C7 (as claimed): for <b>bold<i> and italic</></> Markup::new succeeds and
\* returns a root with one child node (style of b) whose children are the
\* text "bold" and a node (style of i) holding the text " and italic".
C7_TreeOfBI ==
    (input = Bold_and_italic_b /\ result.status # "none") =>
        /\ result.status = "ok"
        /\ Len(result.children) = 1
        /\ result.children[1].kind = "Tree"
        /\ Len(result.children[1].children) = 2

\* C7 (amended): for <m b>bold<m i> and italic</></> Markup::new succeeds and
\* returns a root with the identity style and one child node carrying the
\* style of m b, whose children are the text "bold" and a node carrying the
\* style of m i whose only child is the text " and italic"; each matched
\* open/close pair becomes one node holding the items between them in order.
C7_TreeShape ==
    /\ (input = Bold_and_italic_mb /\ result.status # "none") =>
          /\ result = bold_and_italic_tree(<<"1">>, <<"3">>)
          /\ result = bold_and_italic_tree(
                          collect(parse_style(<<"m", " ", "b">>, Mk).val),
                          collect(parse_style(<<"m", " ", "i">>, Mk).val))
    /\ result.status = "ok" =>
          /\ result.st = <<>>
          /\ tree_tokens(result.children) = token_shapes(tokens)

\* the example was parsed into its tree
C7_Witness ==
    /\ input = Bold_and_italic_mb
    /\ result.status = "ok"
    /\ Len(result.children[1].children) = 2

\* C8: in state BackSlash, '<' adds one '<' to the pending text run, any other
\* character c adds '\' and c, the end of the input adds '\'; no token is
\* pushed, no tag is opened and the tokenizer is in state Text afterwards.
C8_BackslashEscape ==
    [][(pc = "tokenize" /\ state.tag = "BackSlash") =>
          /\ pc' = "tokenize"
          /\ state' = State_Text
          /\ tokens' = tokens
          /\ result' = result
          /\ text' = CASE ch = "<" -> text \o <<"<">>
                       [] ch = NoChar -> text \o <<"\\">>
                       [] OTHER -> text \o <<"\\", ch>>]_vars

\* an escaped '<' and an escaped other character ended up in one text run
C8_Witness ==
    /\ pc = "build"
    /\ input = <<"a", "\\", "<", "b", "\\", "n", "\\">>
    /\ tokens = <<Token_Text(<<"a", "<", "b", "\\", "n", "\\">>)>>

\* the characters a tag body may go on with
AllowedInTag(c) ==
    \/ c \in {",", "#"}
    \/ is_ascii_digit(c)
    \/ is_ascii_whitespace(c)
    \/ is_ascii_alphanumeric(c)

\* C9: in state Tag a comma, '#', ASCII digit, whitespace or alphanumeric is
\* appended to the body; any other character but '>' fails with
\* InvalidTagChar carrying it; the character after '<' (not '/', not '>')
\* starts the body unchecked.
C9_TagCharacters ==
    [][(pc = "tokenize" /\ ch # NoChar) =>
          /\ (state.tag = "Tag" /\ AllowedInTag(ch)) =>
                /\ pc' = "tokenize"
                /\ state' = State_Tag(state.content \o <<ch>>)
                /\ result' = result
          /\ (state.tag = "Tag" /\ ~AllowedInTag(ch) /\ ch # ">") =>
                /\ pc' = "done"
                /\ result' = Err(InvalidTagChar(ch))
          /\ (state.tag = "Lt" /\ ch \notin {"/", ">"}) =>
                /\ pc' = "tokenize"
                /\ state' = State_Tag(<<ch>>)
                /\ result' = result]_vars

\* '!' began a tag body unchecked, and the next '!' was refused
C9_Witness ==
    /\ result = Err(InvalidTagChar("!"))
    /\ state = State_Tag(<<"!">>)

\* what the end of the input in a tag is reported with
eof_after(tag_name) ==
    CASE state.tag = "Lt" -> <<">">>
      [] state.tag = "Tag" -> tag_name \o state.content
      [] state.tag = "MaybeClose" -> <<"<", "/">>

AtEofInTag ==
    pc = "tokenize" /\ chars = <<>> /\ state.tag \in {"Lt", "Tag", "MaybeClose"}

\* C10 (as claimed): the end of the input in a tag fails with Eof and no
\* tokens: ">" after '<', "tag name: " and the body in a tag body, "</"
\* after "</".
C10_EofAsClaimed ==
    [][AtEofInTag =>
          /\ pc' = "done"
          /\ result' = Err(Eof(eof_after(<<"t", "a", "g", " ", "n", "a", "m", "e",
                                           ":", " ">>)))]_vars

\* C10 (amended): the same, the error in a tag body carrying "Tag name: " (a
\* capital T) followed by the body.
C10_EofInTag ==
    [][AtEofInTag =>
          /\ pc' = "done"
          /\ result' = Err(Eof(eof_after(<<"T", "a", "g", " ", "n", "a", "m", "e",
                                           ":", " ">>)))]_vars

\* the input ended in a tag body of several characters
C10_Witness ==
    /\ result.status = "err" /\ result.err.kind = "Eof"
    /\ state.tag = "Tag" /\ Len(state.content) >= 2
    /\ chars = <<>>


\* C11: when "</" is followed by a character other than '>', tokenize ends at
\* once in the explicit "not supported" failure naming that character: the
\* character is not skipped, no token is added and no token list or Markup is
\* returned, and nothing runs after the failure.
C11_NamedCloseUnsupported ==
    [][/\ (pc = "tokenize" /\ state.tag = "MaybeClose" /\ chars # <<>>
             /\ Head(chars) # ">")
          => /\ pc' = "done"
             /\ result'.status = "panic"
             /\ result'.err = Panicked(<<Head(chars)>>)
             /\ result'.children = <<>>
             /\ tokens' = tokens /\ state' = state
             /\ output' = <<>>
       /\ result.status = "panic" => UNCHANGED vars]_vars

\* "</" followed by another character was met after some tokens were made
C11_Witness ==
    /\ pc = "done" /\ result.status = "panic"
    /\ state.tag = "MaybeClose"
    /\ tokens # <<>>

\* C12: every violation of the style grammar reaches the caller of
\* Style::new_from_cli_spec and CompiledStyle::new_from_cli_spec as a returned
\* error value: neither constructor aborts on an invalid spec.
\* Both constructors match Err(err) with panic!: no invalid spec gives Err.
C12_GrammarErrorsAreReturned ==
    phase # "panic"

\* A step in which a spec string is parsed: by Style::new_from_cli_spec or
\* CompiledStyle::new_from_cli_spec in markup mode, by cli::run in command-line
\* mode. The step failed when the error was returned (run) or panicked with.
ParseStep == spec = NoSpec /\ spec' # NoSpec

ModeOf(ph) == IF ph \in {"exit", "failed"} THEN Cli ELSE Mk

Failed(ph) == ph \in {"panic", "failed"}

token_count(s) == Len(split_whitespace(s))

\* the n-th whitespace-separated token of s
token_at(s, n) == split_whitespace(s)[n]

\* the pair (flag, value) alone is a valid spec in the mode
valid_pair(f, v, mode) == parse_pair(Style_new, f, v, mode).ok

\* C13: parse_style checks the token count before any token: more than 6
\* tokens fail with TooManyArgs (carrying the spec and the count) whatever the
\* tokens are, also when the count is odd or a flag unknown; 1, 3 or 5 tokens
\* fail with MissingParamVal whatever the tokens are; exactly 6 tokens making 3
\* valid pairs succeed.
C13_CountCheckedFirst ==
    [][ParseStep =>
          /\ token_count(spec') > 6 =>
                /\ Failed(phase')
                /\ failure' = TooManyArgs(spec', token_count(spec'))
          /\ token_count(spec') \in {1, 3, 5} =>
                /\ Failed(phase')
                /\ failure' = MissingParamVal(spec')
          /\ (/\ token_count(spec') = 6
              /\ \A i \in 1..3 : valid_pair(token_at(spec', 2 * i - 1),
                                            token_at(spec', 2 * i), ModeOf(phase')))
                => /\ ~Failed(phase')
                   /\ failure' = NoError]_vars

\* a spec of 7 tokens, an odd count, starting with an unknown flag, was refused
\* for its count
C13_Witness ==
    /\ Failed(phase)
    /\ token_count(spec) = 7
    /\ token_at(spec, 1) = <<"z">>
    /\ failure.kind = "TooManyArgs" /\ failure.num = 7

\* the error of the first of the pairs i..n of s that is not valid alone
RECURSIVE leftmost_error(_, _, _, _)
leftmost_error(s, i, n, mode) ==
    IF i > n THEN NoError
    ELSE IF valid_pair(token_at(s, 2 * i - 1), token_at(s, 2 * i), mode)
         THEN leftmost_error(s, i + 1, n, mode)
         ELSE parse_pair(Style_new, token_at(s, 2 * i - 1), token_at(s, 2 * i), mode).err

\* the first pair of s, an even count of at most 6 tokens, whose flag is none of
\* f, b, fb, bb, m, with only valid pairs to its left (0: no such pair)
RECURSIVE first_unknown_flag(_, _, _, _)
first_unknown_flag(s, i, n, mode) ==
    IF i > n THEN 0
    ELSE IF token_at(s, 2 * i - 1)
               \notin {<<"f">>, <<"b">>, <<"f", "b">>, <<"b", "b">>, <<"m">>}
         THEN i
    ELSE IF valid_pair(token_at(s, 2 * i - 1), token_at(s, 2 * i), mode)
         THEN first_unknown_flag(s, i + 1, n, mode)
         ELSE 0

PairsGiven(s) == token_count(s) <= 6 /\ token_count(s) % 2 = 0

\* C14: the pairs are folded left to right up to the first offending one: a
\* flag other than f, b, fb, bb, m fails with InvalidParamName carrying that
\* flag ("z x": InvalidParamName("z")), and of several invalid pairs the
\* leftmost gives the error; a spec of valid pairs only does not fail.
C14_LeftmostPairFails ==
    [][(ParseStep /\ PairsGiven(spec')) =>
          /\ failure' = leftmost_error(spec', 1, token_count(spec') \div 2,
                                       ModeOf(phase'))
          /\ Failed(phase') <=> failure' # NoError
          /\ first_unknown_flag(spec', 1, token_count(spec') \div 2,
                                ModeOf(phase')) # 0
                => failure' = InvalidParamName(
                       token_at(spec', 2 * first_unknown_flag(spec', 1,
                                    token_count(spec') \div 2, ModeOf(phase')) - 1))
          /\ spec' = <<"z", " ", "x">> => failure' = InvalidParamName(<<"z">>)]_vars

\* a spec whose second and third pairs are both invalid failed on the second
C14_Witness ==
    /\ Failed(phase)
    /\ spec = <<"f", " ", "r", " ", "z", " ", "x", " ", "m", " ", "q">>
    /\ failure = InvalidParamName(<<"z">>)

\* the one-letter alias of each named hue
AliasOf ==
    [h \in Hues |->
        CASE h = "Red" -> "r" [] h = "Green" -> "g" [] h = "Blue" -> "b"
          [] h = "Cyan" -> "c" [] h = "Magenta" -> "m" [] h = "Yellow" -> "y"
          [] h = "Black" -> "k" [] h = "White" -> "w"]

\* the spec of the single pair (flag, alias of hue h) was parsed, nothing since
ParsedPair(flag, h) ==
    /\ spec = flag \o <<" ", AliasOf[h]>>
    /\ ~Failed(phase)
    /\ calls = 1

\* C15: setting a color and brightening commute: for every named hue c the
\* Style parsed from "fb c" is the hue c on the bright foreground channel, the
\* Style of Style::new().fg(c).fg_brighten() and of
\* Style::new().fg_brighten().fg(c); likewise "bb c", bg(c) and bg_brighten().
C15_BrightenCommutes ==
    \A h \in Hues :
        /\ ParsedPair(<<"f", "b">>, h) =>
              /\ style = [fg |-> Some(Hue(h), "FgBright"), bg |-> None, mdfs |-> <<>>]
              /\ style = fg_brighten(fg(Style_new, Hue(h)))
              /\ style = fg(fg_brighten(Style_new), Hue(h))
        /\ ParsedPair(<<"b", "b">>, h) =>
              /\ style = [fg |-> None, bg |-> Some(Hue(h), "BgBright"), mdfs |-> <<>>]
              /\ style = bg_brighten(bg(Style_new, Hue(h)))
              /\ style = bg(bg_brighten(Style_new), Hue(h))

\* "fb c" was parsed for a hue c other than the default one
C15_Witness ==
    /\ ParsedPair(<<"f", "b">>, "Cyan")
    /\ style.fg = Some(Hue("Cyan"), "FgBright")

\* the last of the first n pairs of s whose flag is one of flags (0: none)
RECURSIVE last_pair_with(_, _, _)
last_pair_with(s, flags, n) ==
    IF n = 0 THEN 0
    ELSE IF token_at(s, 2 * n - 1) \in flags THEN n
    ELSE last_pair_with(s, flags, n - 1)

pair_count(s) == token_count(s) \div 2

\* the color the value of pair i of s stands for
color_at(s, i, mode) == parse_color(token_at(s, 2 * i), mode).val

\* C16: in one spec an fb (bb) pair puts the foreground (background) on the
\* bright channel for good: a later f (b) pair replaces the color only, and
\* the color kept is that of the last pair of the channel; "fb r f g" is Green
\* on the bright foreground channel. Without fb (bb) the channel is the plain
\* one.
C16_BrightChannelPersists ==
    [][(ParseStep /\ PairsGiven(spec') /\ ~Failed(phase')) =>
          /\ last_pair_with(spec', {<<"f">>, <<"f", "b">>}, pair_count(spec')) # 0 =>
                /\ style'.fg.some
                /\ style'.fg.clr =
                      color_at(spec', last_pair_with(spec', {<<"f">>, <<"f", "b">>},
                                                    pair_count(spec')), ModeOf(phase'))
                /\ style'.fg.ct =
                      IF last_pair_with(spec', {<<"f", "b">>}, pair_count(spec')) # 0
                      THEN "FgBright" ELSE "Fg"
          /\ last_pair_with(spec', {<<"b">>, <<"b", "b">>}, pair_count(spec')) # 0 =>
                /\ style'.bg.some
                /\ style'.bg.clr =
                      color_at(spec', last_pair_with(spec', {<<"b">>, <<"b", "b">>},
                                                    pair_count(spec')), ModeOf(phase'))
                /\ style'.bg.ct =
                      IF last_pair_with(spec', {<<"b", "b">>}, pair_count(spec')) # 0
                      THEN "BgBright" ELSE "Bg"
          /\ spec' = <<"f", "b", " ", "r", " ", "f", " ", "g">> =>
                style'.fg = Some(Hue("Green"), "FgBright")
          /\ spec' = <<"b", "b", " ", "r", " ", "b", " ", "g">> =>
                style'.bg = Some(Hue("Green"), "BgBright")]_vars

\* "fb r f g" was parsed: the plain f pair came after the fb pair
C16_Witness ==
    /\ spec = <<"f", "b", " ", "r", " ", "f", " ", "g">>
    /\ ~Failed(phase)
    /\ style.fg = Some(Hue("Green"), "FgBright")

\* the sixteen hex digits in both cases, and the value of one
HexLower == <<"0", "1", "2", "3", "4", "5", "6", "7", "8", "9",
              "a", "b", "c", "d", "e", "f">>

HexUpper == <<"0", "1", "2", "3", "4", "5", "6", "7", "8", "9",
              "A", "B", "C", "D", "E", "F">>

is_hex_digit(c) == \E i \in 1..16 : c = HexLower[i] \/ c = HexUpper[i]

hex_value(c) == (CHOOSE i \in 1..16 : c = HexLower[i] \/ c = HexUpper[i]) - 1

all_hex(body) == \A i \in 1..Len(body) : is_hex_digit(body[i])

\* the six digits a hex body of 2, 3 or 6 digits stands for
six_digits(body) ==
    CASE Len(body) = 2 -> <<body[1], body[2], body[1], body[2], body[1], body[2]>>
      [] Len(body) = 3 -> <<body[1], body[1], body[2], body[2], body[3], body[3]>>
      [] Len(body) = 6 -> body

\* the RGB color of six hex digits
rgb_of(d) ==
    RGB(16 * hex_value(d[1]) + hex_value(d[2]),
        16 * hex_value(d[3]) + hex_value(d[4]),
        16 * hex_value(d[5]) + hex_value(d[6]))

ColorFlags == {<<"f">>, <<"b">>, <<"f", "b">>, <<"b", "b">>}

\* a spec of one color pair was parsed; its value token and the color it gave
OneColorPair(s) == token_count(s) = 2 /\ token_at(s, 1) \in ColorFlags

color_given(s, st) ==
    IF token_at(s, 1) \in {<<"f">>, <<"f", "b">>} THEN st.fg.clr ELSE st.bg.clr

\* C17: in markup mode a color token '#' + body, the body 2, 3 or 6 hex digits
\* of either case, is expanded to six digits (2 digits three times, each of 3
\* digits doubled, 6 digits as they are) and read as the three base-16 bytes
\* R, G, B: #ABC is #AABBCC is RGB(170, 187, 204), #0080FF is RGB(0, 128, 255).
C17_HexExpansion ==
    [][(/\ ParseStep /\ ModeOf(phase') = Mk
        /\ OneColorPair(spec')
        /\ Head(token_at(spec', 2)) = "#"
        /\ Len(token_at(spec', 2)) \in {3, 4, 7}
        /\ all_hex(Tail(token_at(spec', 2)))) =>
          /\ ~Failed(phase')
          /\ color_given(spec', style') = rgb_of(six_digits(Tail(token_at(spec', 2))))
          /\ token_at(spec', 2) \in {<<"#", "A", "B", "C">>, <<"#", "a", "b", "c">>,
                                     <<"#", "A", "A", "B", "B", "C", "C">>,
                                     <<"#", "a", "A", "b", "B", "c", "C">>}
                => color_given(spec', style') = RGB(170, 187, 204)
          /\ token_at(spec', 2) = <<"#", "0", "0", "8", "0", "F", "F">>
                => color_given(spec', style') = RGB(0, 128, 255)]_vars

\* a 3-digit body in lower case was parsed in markup mode
C17_Witness ==
    /\ spec = <<"b", " ", "#", "a", "b", "c">>
    /\ phase = "build" /\ calls = 1
    /\ style.bg = Some(RGB(170, 187, 204), "Bg")

marked(tok, mode) ==
    IF mode = Mk THEN Head(tok) = "#" ELSE tok[Len(tok)] = "#"

body_of(tok, mode) ==
    to_lowercase(IF mode = Mk THEN Tail(tok) ELSE SubSeq(tok, 1, Len(tok) - 1))

\* the first of the components r, g, b of six characters that is no hex byte
first_bad_component(d) ==
    IF ~(is_hex_digit(d[1]) /\ is_hex_digit(d[2])) THEN "r"
    ELSE IF ~(is_hex_digit(d[3]) /\ is_hex_digit(d[4])) THEN "g"
    ELSE "b"

\* C19: a color token with the hex marker of the mode fails with InvalidHexClr
\* carrying the body and its length when the body has a length other than 2, 3
\* and 6, and with InvalidHexComp naming the first bad component when the body
\* has such a length and a character that is no hex digit; it never reaches the
\* alias, indexed or comma rules.
\* The token "#" is taken by the alias rule, and a body with '+' before a hex
\* digit is read as a number.
C19_MarkedTokenHexErrors ==
    [][(/\ ParseStep /\ OneColorPair(spec')
        /\ marked(token_at(spec', 2), ModeOf(phase'))) =>
          /\ Len(body_of(token_at(spec', 2), ModeOf(phase'))) \notin {2, 3, 6} =>
                /\ Failed(phase')
                /\ failure' = InvalidHexClr(body_of(token_at(spec', 2), ModeOf(phase')),
                                            Len(body_of(token_at(spec', 2), ModeOf(phase'))))
          /\ (/\ Len(body_of(token_at(spec', 2), ModeOf(phase'))) \in {2, 3, 6}
              /\ ~all_hex(body_of(token_at(spec', 2), ModeOf(phase')))) =>
                /\ Failed(phase')
                /\ failure'.kind = "InvalidHexComp"
                /\ failure'.ch = first_bad_component(
                                     six_digits(body_of(token_at(spec', 2), ModeOf(phase'))))]_vars

\* the decimal number a string of digits stands for (-1: empty or no number)
RECURSIVE dec_value(_, _)
dec_value(p, acc) ==
    IF p = <<>> THEN acc
    ELSE IF ~(\E d \in 0..9 : Digits[d + 1] = Head(p)) THEN -1
    ELSE dec_value(Tail(p), 10 * acc + (CHOOSE d \in 0..9 : Digits[d + 1] = Head(p)))

\* the 8-bit value of one part of a comma triple: 0 unless it is 0..255
part_value(p) ==
    IF p = <<>> THEN 0
    ELSE IF dec_value(p, 0) < 0 \/ dec_value(p, 0) > 255 THEN 0
    ELSE dec_value(p, 0)

\* the token is taken by the alias rule or the indexed rule
alias_or_index(tok) ==
    \/ Len(tok) = 1 /\ dec_value(tok, 0) < 0
    \/ tok # <<>> /\ dec_value(tok, 0) \in 0..255

\* a spec of one color pair is parsed whose value token has no hex marker
UnmarkedColorStep ==
    /\ ParseStep /\ OneColorPair(spec')
    /\ ~marked(token_at(spec', 2), ModeOf(phase'))

\* C20 (as claimed): a token without hex marker of exactly 3 comma-separated
\* parts parses to RGB, a part that is empty, no number or above 255 being 0;
\* one of another number of parts that no earlier rule takes fails with
\* UnknownClrFmt carrying the token.
C20_CommaTripleAsClaimed ==
    [][UnmarkedColorStep =>
          /\ Len(split_comma(token_at(spec', 2))) = 3 =>
                /\ ~Failed(phase')
                /\ color_given(spec', style') =
                      RGB(part_value(split_comma(token_at(spec', 2))[1]),
                          part_value(split_comma(token_at(spec', 2))[2]),
                          part_value(split_comma(token_at(spec', 2))[3]))
          /\ (/\ Len(split_comma(token_at(spec', 2))) # 3
              /\ ~alias_or_index(token_at(spec', 2))) =>
                /\ Failed(phase')
                /\ failure' = UnknownClrFmt(token_at(spec', 2))]_vars

\* C20 (amended): the same, the UnknownClrFmt error carrying the token in
\* lower case, as every rule sees it; ",128,255" is RGB(0, 128, 255) and
\* ",128," is RGB(0, 128, 0).
C20_CommaTriple ==
    [][UnmarkedColorStep =>
          /\ Len(split_comma(token_at(spec', 2))) = 3 =>
                /\ ~Failed(phase')
                /\ color_given(spec', style') =
                      RGB(part_value(split_comma(token_at(spec', 2))[1]),
                          part_value(split_comma(token_at(spec', 2))[2]),
                          part_value(split_comma(token_at(spec', 2))[3]))
          /\ (/\ Len(split_comma(token_at(spec', 2))) # 3
              /\ ~alias_or_index(token_at(spec', 2))) =>
                /\ Failed(phase')
                /\ failure' = UnknownClrFmt(to_lowercase(token_at(spec', 2)))
          /\ token_at(spec', 2) = <<",", "1", "2", "8", ",", "2", "5", "5">> =>
                color_given(spec', style') = RGB(0, 128, 255)
          /\ token_at(spec', 2) = <<",", "1", "2", "8", ",">> =>
                color_given(spec', style') = RGB(0, 128, 0)]_vars

\* a triple with a part above 255 and a part that is no number was parsed
C20_Witness ==
    /\ spec = <<"f", " ", "3", "0", "0", ",", "x", ",", "7">>
    /\ ~Failed(phase)
    /\ style.fg = Some(RGB(0, 0, 7), "Fg")

\* the upper-case form of each alias letter
AliasUpperOf ==
    [h \in Hues |->
        CASE h = "Red" -> "R" [] h = "Green" -> "G" [] h = "Blue" -> "B"
          [] h = "Cyan" -> "C" [] h = "Magenta" -> "M" [] h = "Yellow" -> "Y"
          [] h = "Black" -> "K" [] h = "White" -> "W"]

is_letter(c) == \E i \in 1..26 : c = UpperLetters[i] \/ c = LowerLetters[i]

\* the value token of the pair is the letter c alone
OneLetterStep ==
    /\ ParseStep /\ OneColorPair(spec')
    /\ Len(token_at(spec', 2)) = 1
    /\ is_letter(token_at(spec', 2)[1])

\* C21: a color token of one letter is resolved through the alias table only,
\* in either case: r, g, b, c, m, y, k, w give Red, Green, Blue, Cyan, Magenta,
\* Yellow, Black, White; every other letter fails with InvalidClrSpec, no
\* later rule being tried.
C21_OneLetterAlias ==
    [][OneLetterStep =>
          /\ \A h \in Hues :
                token_at(spec', 2)[1] \in {AliasOf[h], AliasUpperOf[h]} =>
                    /\ ~Failed(phase')
                    /\ color_given(spec', style') = Hue(h)
          /\ (\A h \in Hues : token_at(spec', 2)[1] \notin {AliasOf[h], AliasUpperOf[h]}) =>
                /\ Failed(phase')
                /\ failure'.kind = "InvalidClrSpec"]_vars

\* the upper-case letter G was given as the color
C21_Witness ==
    /\ spec = <<"b", " ", "G">>
    /\ ~Failed(phase)
    /\ style.bg = Some(Hue("Green"), "Bg")

\* the value token of the pair is a decimal number: digits only
DecimalStep ==
    /\ ParseStep /\ OneColorPair(spec')
    /\ dec_value(token_at(spec', 2), 0) >= 0

\* C22: a color token that is a decimal number 0..255, one digit included,
\* gives Indexed(value): with the flag f (b) on the plain channel, the Style of
\* fg_index (bg_index); a decimal number above 255 is neither Indexed nor taken
\* modulo 256: it fails with UnknownClrFmt.
C22_IndexedColor ==
    [][DecimalStep =>
          /\ dec_value(token_at(spec', 2), 0) <= 255 =>
                /\ ~Failed(phase')
                /\ color_given(spec', style') = Indexed(dec_value(token_at(spec', 2), 0))
                /\ token_at(spec', 1) = <<"f">> =>
                      /\ style'.fg = Some(Indexed(dec_value(token_at(spec', 2), 0)), "Fg")
                      /\ style' = fg_index(Style_new, dec_value(token_at(spec', 2), 0))
                /\ token_at(spec', 1) = <<"b">> =>
                      /\ style'.bg = Some(Indexed(dec_value(token_at(spec', 2), 0)), "Bg")
                      /\ style' = bg_index(Style_new, dec_value(token_at(spec', 2), 0))
          /\ dec_value(token_at(spec', 2), 0) > 255 =>
                /\ Failed(phase')
                /\ failure' = UnknownClrFmt(token_at(spec', 2))]_vars

\* the largest 8-bit number was given as the foreground color
C22_Witness ==
    /\ spec = <<"f", " ", "2", "5", "5">>
    /\ ~Failed(phase)
    /\ style.fg = Some(Indexed(255), "Fg")

\* the modifier table: the characters and the modifier of each
ModifierChars == {"b", "d", "i", "u", "k", "v", "h", "s", "l", "o"}

ModifierOf ==
    [c \in ModifierChars |->
        CASE c = "b" -> "Bold" [] c = "d" -> "Dim" [] c = "i" -> "Italic"
          [] c = "u" -> "Underline" [] c = "k" -> "Blink" [] c = "v" -> "Invert"
          [] c = "h" -> "Hide" [] c = "s" -> "Strike" [] c = "l" -> "DoubleUL"
          [] c = "o" -> "Overline"]

in_table(val) == \A i \in 1..Len(val) : val[i] \in ModifierChars

\* the first character of val that is not in the table
first_unknown(val) == val[CHOOSE i \in 1..Len(val) :
                             /\ val[i] \notin ModifierChars
                             /\ \A j \in 1..(i - 1) : val[j] \in ModifierChars]

\* the modifiers the m pairs among the pairs i..n of s stand for, in order
RECURSIVE modifiers_written(_, _, _)
modifiers_written(s, i, n) ==
    IF i > n THEN <<>>
    ELSE (IF token_at(s, 2 * i - 1) = <<"m">>
          THEN [j \in 1..Len(token_at(s, 2 * i)) |-> ModifierOf[token_at(s, 2 * i)[j]]]
          ELSE <<>>) \o modifiers_written(s, i + 1, n)

\* the first pair of i..n of s that is not valid is an m pair: its number (0:
\* all pairs are valid, or the first invalid one is no m pair)
RECURSIVE failing_m_pair(_, _, _, _)
failing_m_pair(s, i, n, mode) ==
    IF i > n THEN 0
    ELSE IF valid_pair(token_at(s, 2 * i - 1), token_at(s, 2 * i), mode)
         THEN failing_m_pair(s, i + 1, n, mode)
    ELSE IF token_at(s, 2 * i - 1) = <<"m">> THEN i
    ELSE 0

\* C23: an m pair maps each character of its value through the modifier table
\* and appends the modifiers to the style's sequence in the order written,
\* duplicates kept, after those of earlier m pairs; the first character not in
\* the table fails the whole parse with InvalidModifier carrying that
\* character ("m q": InvalidModifier('q')).
C23_ModifiersAppended ==
    [][(ParseStep /\ PairsGiven(spec')) =>
          /\ ~Failed(phase') =>
                style'.mdfs = modifiers_written(spec', 1, pair_count(spec'))
          /\ failing_m_pair(spec', 1, pair_count(spec'), ModeOf(phase')) # 0 =>
                /\ Failed(phase')
                /\ failure' = InvalidModifier(first_unknown(
                       token_at(spec', 2 * failing_m_pair(spec', 1, pair_count(spec'),
                                                          ModeOf(phase')))))
          /\ (token_count(spec') = 2 /\ token_at(spec', 1) = <<"m">>) =>
                Failed(phase') <=> ~in_table(token_at(spec', 2))
          /\ spec' = <<"m", " ", "q">> => failure' = InvalidModifier("q")
          /\ spec' = <<"m", " ", "b", "b">> => style'.mdfs = <<"Bold", "Bold">>
          /\ spec' = <<"m", " ", "b", "i", " ", "m", " ", "b">> =>
                style'.mdfs = <<"Bold", "Italic", "Bold">>]_vars

\* two m pairs were parsed, the second repeating a modifier of the first
C23_Witness ==
    /\ spec = <<"m", " ", "b", "i", " ", "m", " ", "b">>
    /\ ~Failed(phase)
    /\ style.mdfs = <<"Bold", "Italic", "Bold">>

\* the base code of each named hue and the offset of each channel
HueBase ==
    [h \in Hues |->
        CASE h = "Black" -> 30 [] h = "Red" -> 31 [] h = "Green" -> 32
          [] h = "Yellow" -> 33 [] h = "Blue" -> 34 [] h = "Magenta" -> 35
          [] h = "Cyan" -> 36 [] h = "White" -> 37]

ChannelOffset ==
    [ct \in ClrTypes |->
        CASE ct = "Fg" -> 0 [] ct = "Bg" -> 10 [] ct = "FgBright" -> 60
          [] ct = "BgBright" -> 70]

ChannelCsi == [ct \in ClrTypes |-> IF ct \in {"Fg", "FgBright"} THEN 38 ELSE 48]

\* the code of a color on a channel, as the claim gives it
code_of(color, ct) ==
    CASE color.tag = "Indexed" ->
            to_string(ChannelCsi[ct]) \o <<";", "5", ";">> \o to_string(color.r)
      [] color.tag = "RGB" ->
            to_string(ChannelCsi[ct]) \o <<";", "2", ";">> \o to_string(color.r)
                \o <<";">> \o to_string(color.g) \o <<";">> \o to_string(color.b)
      [] OTHER -> to_string(HueBase[color.tag] + ChannelOffset[ct])

\* the codes of a sequence, each followed by ';'
RECURSIVE each_with_semicolon(_)
each_with_semicolon(codes) ==
    IF codes = <<>> THEN <<>>
    ELSE Head(codes) \o <<";">> \o each_with_semicolon(Tail(codes))

\* foreground, background, then the modifiers in sequence order, ';' between
code_list(st) ==
    IF ~st.fg.some /\ ~st.bg.some /\ st.mdfs = <<>> THEN <<>>
    ELSE SubSeq(each_with_semicolon(
                    (IF st.fg.some THEN <<code_of(st.fg.clr, st.fg.ct)>> ELSE <<>>)
                    \o (IF st.bg.some THEN <<code_of(st.bg.clr, st.bg.ct)>> ELSE <<>>)
                    \o [i \in 1..Len(st.mdfs) |-> to_string(Modifier_u8(st.mdfs[i]))]),
                1,
                Len(each_with_semicolon(
                    (IF st.fg.some THEN <<code_of(st.fg.clr, st.fg.ct)>> ELSE <<>>)
                    \o (IF st.bg.some THEN <<code_of(st.bg.clr, st.bg.ct)>> ELSE <<>>)
                    \o [i \in 1..Len(st.mdfs) |-> to_string(Modifier_u8(st.mdfs[i]))])) - 1)

DocExampleSpec ==
    <<"f", "b", " ", "r", " ", "b", " ", "#", "A", "B", "C", " ", "m", " ",
      "i", "l", "o", "b", "u">>

DocExampleCodes ==
    <<"9", "1", ";", "4", "8", ";", "2", ";", "1", "7", "0", ";", "1", "8", "7", ";",
      "2", "0", "4", ";", "3", ";", "2", "1", ";", "5", "3", ";", "1", ";", "4">>

\* C24: the code list of a Style is its foreground code, its background code
\* and the code of each modifier in sequence order, joined by ';', in that
\* order whatever the order of the pairs or of the builder calls was: a hue is
\* its base 30..37 plus the channel offset 0, 10, 60 or 70, Indexed(i) is
\* csi;5;i and RGB csi;2;r;g;b, csi 38 on the foreground channels and 48 on the
\* background ones; "fb r b #ABC m ilobu" is 91;48;2;170;187;204;3;21;53;1;4.
C24_CodeList ==
    compiled.some =>
        /\ compiled.payload = code_list(style)
        /\ spec = DocExampleSpec => compiled.payload = DocExampleCodes

\* the Style of the documented example was compiled
C24_Witness ==
    /\ compiled.some
    /\ spec = DocExampleSpec
    /\ compiled.payload = DocExampleCodes

\* every tag of the tokenized input is <> or </>
OnlyEmptyTags == \A i \in 1..Len(tokens) : tokens[i].kind \in {"Empty", "End", "Text"}

\* the text runs of tks, concatenated in source order
RECURSIVE text_runs(_)
text_runs(tks) ==
    IF tks = <<>> THEN <<>>
    ELSE (IF Head(tks).kind = "Text" THEN Head(tks).text ELSE <<>>)
         \o text_runs(Tail(tks))

\* s has no character that starts a tag or an escape
plain_text(s) == \A i \in 1..Len(s) : s[i] \notin {"<", "\\"}

NestedEmptyScopes ==
    <<"<", ">", "a", "<", ">", "b", "<", "/", ">", "<", "/", ">", "c">>

\* C25: a <> scope has the identity style and adds no escape codes: a balanced
\* markup whose tags are all <> and </> is accepted and renders to exactly its
\* text runs concatenated in source order, and text at the root outside any
\* tag is rendered unchanged.
C25_EmptyScopeIsIdentity ==
    pc = "done" =>
        /\ (Tokenized /\ OnlyEmptyTags /\ closes_matched(tokens)
                /\ opens(tokens) = closes(tokens)) =>
              /\ result.status = "ok"
              /\ output = text_runs(tokens)
        /\ plain_text(input) => result.status = "ok" /\ output = input
        /\ input = NestedEmptyScopes => output = <<"a", "b", "c">>

\* nested <> scopes with text inside and after them were rendered
C25_Witness ==
    /\ pc = "done"
    /\ input = NestedEmptyScopes
    /\ output = <<"a", "b", "c">>

\* s ends in a backslash
ends_in_backslash(s) == s # <<>> /\ s[Len(s)] = "\\"

\* tokenize returned tokens whose last one is a text run ending in a backslash
BackslashKept ==
    /\ Tokenized
    /\ tokens # <<>>
    /\ tokens[Len(tokens)].kind = "Text"
    /\ ends_in_backslash(tokens[Len(tokens)].text)

StructuralErrors == {"UnexpectedClosingTag", "UnclosedTags"}

CloseThenBadTag == <<"<", "/", ">", "<", "z", " ", "x", ">">>

\* C27: Markup::new tokenizes the whole input before it builds the tree: the
\* tree builder has done nothing while the tokenizer runs and starts only when
\* the input is used up, so an error of the tokenizer or of the style grammar
\* anywhere in the input is reported in preference to a structural error
\* located earlier (</><z x> fails with InvalidParameterName, not with
\* UnexpectedClosingTag), and UnexpectedClosingTag and UnclosedTags are
\* returned only for inputs that tokenize without error.
C27_TokenizeBeforeBuild ==
    /\ pc = "tokenize" =>
          consumed = 0 /\ stack = <<>> /\ current_nodes = <<>> /\ result = NoResult
    /\ pc \in {"build", "render"} => Tokenized /\ chars = <<>>
    /\ consumed > 0 => Tokenized /\ chars = <<>>
    /\ result.err.kind \in StructuralErrors => Tokenized /\ chars = <<>>
    /\ (pc = "done" /\ ~Tokenized) =>
          /\ result.status \in {"err", "panic"}
          /\ result.err.kind \notin StructuralErrors
          /\ consumed = 0
    /\ (pc = "done" /\ input = CloseThenBadTag) =>
          result = Err(InvalidParamName(<<"z">>))

\* a close tag with nothing open came first, the bad tag after it was reported
C27_Witness ==
    /\ pc = "done"
    /\ input = CloseThenBadTag
    /\ tokens = <<Token_End>>
    /\ ~closes_matched(tokens)
    /\ result = Err(InvalidParamName(<<"z">>))

\* the code of a named hue on a channel, the 8-bit sum not reduced
hue_sum(field) == to_num(field.clr) + ClrType_u8(field.ct)

\* C28: after any sequence of Style builder calls or style-spec pairs the
\* foreground field's channel is plain or bright foreground and the
\* background field's channel is plain or bright background, never the other
\* family; hence the code of a named hue, base plus offset, lies in 30..37 or
\* 90..97 for the foreground and in 40..47 or 100..107 for the background, and
\* the 8-bit addition never overflows.
C28_ChannelFamilies ==
    /\ style.fg.some =>
          /\ style.fg.ct \in {"Fg", "FgBright"}
          /\ style.fg.clr.tag \in Hues =>
                /\ hue_sum(style.fg) \in (30..37) \cup (90..97)
                /\ hue_sum(style.fg) < 256
                /\ Color_format(style.fg.clr, style.fg.ct) = to_string(hue_sum(style.fg))
    /\ style.bg.some =>
          /\ style.bg.ct \in {"Bg", "BgBright"}
          /\ style.bg.clr.tag \in Hues =>
                /\ hue_sum(style.bg) \in (40..47) \cup (100..107)
                /\ hue_sum(style.bg) < 256
                /\ Color_format(style.bg.clr, style.bg.ct) = to_string(hue_sum(style.bg))

\* a named hue was set on the background and brightened
C28_Witness ==
    /\ calls > 0
    /\ style.bg.some
    /\ style.bg.ct = "BgBright"
    /\ style.bg.clr.tag \in Hues
    /\ hue_sum(style.bg) \in 100..107
=============================================================================
